---- MODULE Spec2Model ----
(***************************************************************************)
(* Model of the generic REST backend: the type-to-collection dispatch      *)
(* (modelMap / getModel), the generic list / create / update / delete      *)
(* handlers, the file upload and download handlers, the cached database    *)
(* connection and the global error handler.                                *)
(*                                                                         *)
(* Every route handler is one action.  The external collaborators (the     *)
(* document store, the object store, the clock, Math.random) are inputs    *)
(* of the actions: an external call either succeeds or fails, the clock    *)
(* returns some instant, generateId returns some identifier.               *)
(***************************************************************************)
EXTENDS Integers, Sequences, FiniteSets, TLC

VARIABLES
    DB_URI,      \* process.env.MONGODB_URI is set
    s3,          \* the S3 client exists (credentials and bucket were set at startup)
    cachedDb,    \* cachedDb is not null
    readyState,  \* mongoose.connection.readyState (0 disconnected, 1 connected)
    db,          \* the document store: collection name -> documents in insertion order
    blobs,       \* the object store: the keys of the objects of the bucket
    scope,       \* the URL type tokens the client addresses in this run
    last,        \* the last request handled and the response it got
    calls        \* where each concurrent caller of connectToDatabase stands

vars == <<DB_URI, s3, cachedDb, readyState, db, blobs, scope, last, calls>>

----------------------------------------------------------------------------
(* Bounds of the explored inputs. *)

\* Instants the clock may return and dates a client may send: 1..MaxTime.
MaxTime == 2

\* The requests that may be inside connectToDatabase at the same time.
MaxCallers == 3

Callers == 1..MaxCallers

Dates == 1..MaxTime
Ids == {"a", "b"}
Titles == {"t"}
Names == {"n"}
OriginalNames == {"f"}

\* The instants at which the upload middleware stores an object.
UploadInstants == {1, 2}

\* A string field that is not present / a date that is not present.
NoStr == ""
NoDate == 0

----------------------------------------------------------------------------
(* models.js: the schemas and the exported models. *)

Models == {"File", "Note", "Project", "Contact", "PythonCode",
           "JavascriptCode", "HtmlCode", "CssCode", "OtherCode"}

\* The fields of each schema that the model keeps (id and date are in all).
SchemaFields(M) ==
    CASE M = "File" -> {"id", "filename", "date"}
      [] M \in {"Project", "Contact"} -> {"id", "name", "date"}
      [] OTHER -> {"id", "title", "date"}

\* The fields declared `required: true` besides id.
RequiredFields(M) ==
    CASE M = "File" -> {}
      [] M \in {"Project", "Contact"} -> {"name"}
      [] OTHER -> {"title"}

\* A document or a request body: every field, NoStr / NoDate when absent.
Doc(id, title, name, filename, date) ==
    [id |-> id, title |-> title, name |-> name, filename |-> filename, date |-> date]

EmptyBody == Doc(NoStr, NoStr, NoStr, NoStr, NoDate)

Present(b) ==
    {f \in {"id", "title", "name", "filename"} : b[f] # NoStr}
        \cup (IF b.date # NoDate THEN {"date"} ELSE {})

----------------------------------------------------------------------------
(* The server: helpers. *)

\* The object key multer-s3 stores an upload under.
S3Key(t, originalname) == "uploads/" \o ToString(t) \o "-" \o originalname

Keys == {S3Key(t, n) : t \in UploadInstants, n \in OriginalNames}

\* The filename a client sends in a body: the key of an earliest upload.
ClientKey == S3Key(1, "f")

\* The value of a lookup that finds nothing, and of a property that
\* modelMap only inherits from Object.prototype (modelMap is a plain object).
Undefined == "undefined"
ObjectConstructor == "Object"
ObjectPrototypeKeys == {"constructor"}

modelMap ==
    [k \in {"files", "notes", "projects", "contacts", "pythonCodes",
            "javascriptCodes", "htmlCodes", "cssCodes", "otherCodes"} |->
        CASE k = "files" -> "File"
          [] k = "notes" -> "Note"
          [] k = "projects" -> "Project"
          [] k = "contacts" -> "Contact"
          [] k = "pythonCodes" -> "PythonCode"
          [] k = "javascriptCodes" -> "JavascriptCode"
          [] k = "htmlCodes" -> "HtmlCode"
          [] k = "cssCodes" -> "CssCode"
          [] k = "otherCodes" -> "OtherCode"]

\* modelMap[key] as JavaScript evaluates it.
Lookup(key) ==
    IF key \in DOMAIN modelMap THEN modelMap[key]
    ELSE IF key \in ObjectPrototypeKeys THEN ObjectConstructor
    ELSE Undefined

CodeSubtypes == {"python", "javascript", "html", "css", "other"}

\* A lookup that ignores the type: modelMap.files.
getModelFiles(type) == Lookup("files")

getModel(type) ==
    IF type \in CodeSubtypes THEN Lookup(type \o "Codes") ELSE Lookup(type)

\* The nine type tokens the interface documents.
RegisteredTokens == {"files", "notes", "projects", "contacts"} \cup CodeSubtypes

\* Tokens a client may put in the URL: the registered ones and others.
Tokens == RegisteredTokens \cup {"pythonCodes", "constructor", "bogus"}

\* The two path forms of the generic routes, '/api/:type' and
\* '/api/codes/:subtype'.
Forms == {"flat", "nested"}

\* The forms the client uses for a token: the nested one for every token but
\* the four that name a collection of their own.
FormsFor(token) ==
    IF token \in {"files", "notes", "projects", "contacts"} THEN {"flat"} ELSE Forms

\* req.params of a generic route: '/api/:type' binds type,
\* '/api/codes/:subtype' binds subtype.
Params(form, token) ==
    IF form = "nested" THEN [type |-> Undefined, subtype |-> token]
    ELSE [type |-> token, subtype |-> Undefined]

\* const type = req.params.type: the parameter of the nested form is not read.
TypeOfTypeOnly(form, token) == Params(form, token).type

\* const type = req.params.subtype || req.params.type
TypeOf(form, token) ==
    LET p == Params(form, token)
    IN  IF p.subtype # Undefined THEN p.subtype ELSE p.type

----------------------------------------------------------------------------
(* Routing: which POST routes Express matches a request path against.     *)

\* The segments of the path of a generic request without an id, and those
\* of the upload path.
Segments(form, token) ==
    IF form = "nested" THEN <<"api", "codes", token>> ELSE <<"api", token>>

UploadSegments == <<"api", "files", "upload">>

\* The named parameters of the route patterns; each binds one segment.
ParamNames == {":type", ":subtype"}

\* A pattern that matches every path it is a prefix of (as app.use does).
MatchesPrefix(pattern, segs) ==
    /\ Len(pattern) <= Len(segs)
    /\ \A i \in 1..Len(pattern) : pattern[i] \in ParamNames \/ pattern[i] = segs[i]

\* A route pattern matches a path of as many segments, segment by segment.
Matches(pattern, segs) ==
    /\ Len(pattern) = Len(segs)
    /\ \A i \in 1..Len(pattern) : pattern[i] \in ParamNames \/ pattern[i] = segs[i]

\* The POST routes in the order of their registration.
PostRoutes ==
    << [handler |-> "GenericPost",
        patterns |-> {<<"api", ":type">>, <<"api", "codes", ":subtype">>}],
       [handler |-> "Upload",
        patterns |-> {<<"api", "files", "upload">>}] >>

\* The handlers of the POST routes that match the path, in order.
MatchingPostRoutes(segs) ==
    LET matching == SelectSeq(PostRoutes,
                        LAMBDA r : \E pattern \in r.patterns : Matches(pattern, segs))
    IN  [i \in 1..Len(matching) |-> matching[i].handler]

----------------------------------------------------------------------------
(* The connection cache. *)

\* A test of the cache that never finds a connection to reuse.
CachedNever == FALSE

\* if (cachedDb && mongoose.connection.readyState === 1)
Cached == cachedDb /\ readyState = 1

\* connectToDatabase(): connectOk says whether mongoose.connect succeeds
\* if it is called.
connectToDatabase(connectOk) ==
    IF Cached
    THEN [ok |-> TRUE, cachedDb |-> cachedDb, readyState |-> readyState,
          connects |-> FALSE, error |-> NoStr]
    ELSE IF ~DB_URI
    THEN [ok |-> FALSE, cachedDb |-> cachedDb, readyState |-> readyState,
          connects |-> FALSE,
          error |-> "MONGODB_URI is missing in Environment Variables"]
    ELSE IF connectOk
    THEN [ok |-> TRUE, cachedDb |-> TRUE, readyState |-> 1,
          connects |-> TRUE, error |-> NoStr]
    ELSE [ok |-> FALSE, cachedDb |-> cachedDb, readyState |-> 0,
          connects |-> TRUE, error |-> "connect failed"]

----------------------------------------------------------------------------
(* The document store operations the handlers call. *)

\* A lookup without its filter, findOne(): the first document, whatever its id.
IndexOfFirst(coll, id) == IF Len(coll) > 0 THEN 1 ELSE 0

\* The index of the first document with this id, 0 if there is none
\* (findOne({ id }), and the document findOneAndUpdate / deleteOne act on).
IndexOfId(coll, id) ==
    IF \E i \in 1..Len(coll) : coll[i].id = id
    THEN CHOOSE i \in 1..Len(coll) :
            coll[i].id = id /\ \A j \in 1..(i - 1) : coll[j].id # id
    ELSE 0

\* Some document of the collection has this id (what the unique index on id
\* and findOne({ id }) ask).
HasId(coll, id) == \E i \in 1..Len(coll) : coll[i].id = id

IsDateDescending(s) == \A i \in 1..(Len(s) - 1) : s[i].date >= s[i + 1].date

Reorderings(coll) ==
    {[i \in 1..Len(coll) |-> coll[p[i]]] :
        p \in {q \in [1..Len(coll) -> 1..Len(coll)] :
                 \A i, j \in 1..Len(coll) : q[i] = q[j] => i = j}}

\* A list without its sort, Model.find(): the documents in insertion order.
FindUnsorted(coll) == {coll}

\* Model.find().sort({ date: -1 }): the documents of the collection by date
\* descending; the store fixes no order among documents of equal date.
FindSorted(coll) == {s \in Reorderings(coll) : IsDateDescending(s)}

\* The body as it came, { ...req.body }: no id is generated.
newItemDataNoId(body, gen) == body

\* { ...req.body, id: req.body.id || generateId() }, gen the generated id.
newItemData(body, gen) ==
    [body EXCEPT !.id = IF body.id # NoStr THEN body.id ELSE gen]

\* The document Model.create stores: the schema's date default (Date.now, the
\* instant t) applies only when the data carry no date.
CreatedDoc(data, t) ==
    [data EXCEPT !.date = IF data.date # NoDate THEN data.date ELSE t]

\* The body replacing the document instead of being merged into it.
ApplyReplace(doc, body) == [f \in DOMAIN doc |-> body[f]]

\* { $set: req.body } applied to a document.
ApplySet(doc, body) ==
    [f \in DOMAIN doc |-> IF f \in Present(body) THEN body[f] ELSE doc[f]]

\* Model.findOneAndUpdate({ id }, { $set: body }, { new: true }): the
\* collection afterwards and the updated document (none: null); the unique
\* index on id rejects an id another document has.
findOneAndUpdate(coll, id, body) ==
    LET i == IndexOfId(coll, id)
        updated == ApplySet(coll[i], body)
    IN  IF i = 0 THEN [error |-> NoStr, docs |-> <<>>, coll |-> coll]
        ELSE IF updated.id # id /\ HasId(coll, updated.id)
        THEN [error |-> "E11000 duplicate key", docs |-> <<>>, coll |-> coll]
        ELSE [error |-> NoStr, docs |-> <<updated>>,
              coll |-> [coll EXCEPT ![i] = updated]]

RemoveAt(coll, i) ==
    [k \in 1..(Len(coll) - 1) |-> IF k < i THEN coll[k] ELSE coll[k + 1]]

\* The collection when s3.deleteObject rejects in a handler that calls
\* Model.deleteOne before it: the document is gone already.
DeleteOneBeforeObject(coll, i) == RemoveAt(coll, i)

\* The collection when s3.deleteObject rejects in the delete handler:
\* Model.deleteOne comes after it and is not reached.
DeleteOneAfterObject(coll, i) == coll

----------------------------------------------------------------------------
(* Requests and responses. *)

\* size: the bytes of the file part of an upload (0 for any other request).
Req(op, form, token, id, body, file, at) ==
    [op |-> op, form |-> form, token |-> token, id |-> id, body |-> body,
     file |-> file, at |-> at, size |-> 0]

NoReq == Req("none", "flat", NoStr, NoStr, EmptyBody, NoStr, 0)

\* status: the HTTP status; error: the message of the { error } envelope
\* (NoStr when the body is not an error); docs: the documents of the body;
\* failed: the external call that failed while the request was handled.
Res(status, error, docs, failed) ==
    [status |-> status, error |-> error, docs |-> docs, failed |-> failed]

\* The bodies a client sends to a collection: the empty body, the bodies of
\* one field of its schema, and those of two fields one of which is the
\* first title (name, filename).
BodiesFor(M) ==
    LET fields == IF M \in Models THEN SchemaFields(M) ELSE {"id", "title"}
    IN  {b \in [id : {NoStr} \cup Ids, title : {NoStr} \cup Titles,
                name : {NoStr} \cup Names, filename : {NoStr, ClientKey},
                date : {NoDate} \cup Dates] :
            /\ Present(b) \subseteq fields
            /\ \/ Cardinality(Present(b)) <= 1
               \/ /\ Cardinality(Present(b)) = 2
                  /\ \/ b.title = "t"
                     \/ b.name = "n"
                     \/ b.filename # NoStr}

\* No response is waiting to be taken by the client.
Idle == last.req.op = "none"

\* The handler answered: the connection cache is as connectToDatabase left it.
Reply(req, c, status, error, docs) ==
    /\ cachedDb' = c.cachedDb
    /\ readyState' = c.readyState
    /\ last' = [req |-> req, res |-> Res(status, error, docs, NoStr)]

\* catch (err) { next(err) } and the global error handler:
\* res.status(500).json({ error: err.message || "Internal Server Error" }).
ErrorHandler(req, c, message, failed) ==
    /\ cachedDb' = c.cachedDb
    /\ readyState' = c.readyState
    /\ last' = [req |-> req,
                res |-> Res(500, IF message # NoStr THEN message
                                 ELSE "Internal Server Error", <<>>, failed)]

----------------------------------------------------------------------------
(* The generic routes.  fault names the external call that fails during   *)
(* the request, if the handler gets to it.  Each handler is given the path *)
(* form it runs on and, apart, the form that the record of the request in  *)
(* last shows (sent): a request is recorded with the form the client sent. *)

\* The handler of app.get(['/api/:type', '/api/codes/:subtype']).
HandleGet(form, token, fault, sent) ==
    LET type == TypeOf(form, token)
        Model == getModel(type)
        c == connectToDatabase(fault # "connect")
        req == Req("list", sent, token, NoStr, EmptyBody, NoStr, 0)
    IN  /\ Idle
        /\ token \in scope
        /\ UNCHANGED <<calls, DB_URI, s3, db, blobs, scope>>
        /\ IF ~c.ok THEN ErrorHandler(req, c, c.error, "connect")
           ELSE IF Model = Undefined
           THEN Reply(req, c, 404, "Invalid type: " \o type, <<>>)
           ELSE IF Model \notin Models
           THEN ErrorHandler(req, c, "Model.find is not a function", NoStr)
           ELSE IF fault = "find"
           THEN ErrorHandler(req, c, "find failed", "find")
           ELSE \E items \in FindSorted(db[Model]) :
                    Reply(req, c, 200, NoStr, items)

\* app.get(['/api/:type', '/api/codes/:subtype'])
GenericGet(form, token, fault) == HandleGet(form, token, fault, form)

\* The path of a generic request without an id.
Path(form, token) ==
    IF form = "nested" THEN "/api/codes/" \o token ELSE "/api/" \o token

\* String.prototype.includes
Includes(str, sub) ==
    \E i \in 1..(Len(str) - Len(sub) + 1) : SubSeq(str, i, i + Len(sub) - 1) = sub

\* The handler of app.post(['/api/:type', '/api/codes/:subtype']); gen is
\* what generateId returns and t what Date.now returns during the request.
HandlePost(form, token, body, gen, t, fault, sent) ==
    LET type == TypeOf(form, token)
        Model == getModel(type)
        c == connectToDatabase(fault # "connect")
        req == Req("create", sent, token, NoStr, body, NoStr, t)
        data == newItemData(body, gen)
        doc == CreatedDoc(data, t)
    IN  /\ Idle
        /\ token \in scope
        /\ MatchingPostRoutes(Segments(form, token)) = <<"GenericPost">>
        /\ UNCHANGED <<calls, DB_URI, s3, blobs, scope>>
        /\ IF Params(form, token).type = "files" /\ Includes(Path(form, token), "upload")
           THEN \* next(): no later route matches this path
                /\ UNCHANGED <<cachedDb, readyState, db>>
                /\ last' = [req |-> req, res |-> Res(404, NoStr, <<>>, NoStr)]
           ELSE IF ~c.ok
           THEN ErrorHandler(req, c, c.error, "connect") /\ UNCHANGED db
           ELSE IF Model = Undefined
           THEN Reply(req, c, 404, "Invalid type: " \o type, <<>>) /\ UNCHANGED db
           ELSE IF Model \notin Models
           THEN \* Object.create(newItemData): an object with no own property
                Reply(req, c, 201, NoStr, <<EmptyBody>>) /\ UNCHANGED db
           ELSE IF ~(RequiredFields(Model) \subseteq Present(data))
           THEN ErrorHandler(req, c, "validation failed", NoStr) /\ UNCHANGED db
           ELSE IF fault = "create"
           THEN ErrorHandler(req, c, "create failed", "create") /\ UNCHANGED db
           ELSE IF HasId(db[Model], data.id)
           THEN ErrorHandler(req, c, "E11000 duplicate key", NoStr) /\ UNCHANGED db
           ELSE /\ db' = [db EXCEPT ![Model] = Append(@, doc)]
                /\ Reply(req, c, 201, NoStr, <<doc>>)

\* app.post(['/api/:type', '/api/codes/:subtype'])
GenericPost(form, token, body, gen, t, fault) ==
    HandlePost(form, token, body, gen, t, fault, form)

\* The handler of app.put(['/api/:type/:id', '/api/codes/:subtype/:id']).
HandlePut(form, token, id, body, fault, sent) ==
    LET type == TypeOf(form, token)
        Model == getModel(type)
        c == connectToDatabase(fault # "connect")
        req == Req("update", sent, token, id, body, NoStr, 0)
    IN  /\ Idle
        /\ token \in scope
        /\ UNCHANGED <<calls, DB_URI, s3, blobs, scope>>
        /\ IF ~c.ok
           THEN ErrorHandler(req, c, c.error, "connect") /\ UNCHANGED db
           ELSE IF Model = Undefined
           THEN Reply(req, c, 404, "Invalid type", <<>>) /\ UNCHANGED db
           ELSE IF Model \notin Models
           THEN ErrorHandler(req, c, "Model.findOneAndUpdate is not a function", NoStr)
                /\ UNCHANGED db
           ELSE IF fault = "update"
           THEN ErrorHandler(req, c, "update failed", "update") /\ UNCHANGED db
           ELSE LET r == findOneAndUpdate(db[Model], id, body)
                IN  IF r.error # NoStr
                    THEN ErrorHandler(req, c, r.error, NoStr) /\ UNCHANGED db
                    ELSE \* res.json(updated): null when nothing was found
                         /\ db' = [db EXCEPT ![Model] = r.coll]
                         /\ Reply(req, c, 200, NoStr, r.docs)

\* app.put(['/api/:type/:id', '/api/codes/:subtype/:id'])
GenericPut(form, token, id, body, fault) ==
    HandlePut(form, token, id, body, fault, form)

\* The handler of app.delete(['/api/:type/:id', '/api/codes/:subtype/:id']).
HandleDelete(form, token, id, fault, sent) ==
    LET type == TypeOf(form, token)
        Model == getModel(type)
        c == connectToDatabase(fault # "connect")
        req == Req("delete", sent, token, id, EmptyBody, NoStr, 0)
    IN  /\ Idle
        /\ token \in scope
        /\ UNCHANGED <<calls, DB_URI, s3, scope>>
        /\ IF ~c.ok
           THEN ErrorHandler(req, c, c.error, "connect") /\ UNCHANGED <<db, blobs>>
           ELSE IF Model = Undefined
           THEN Reply(req, c, 404, "Invalid type", <<>>) /\ UNCHANGED <<db, blobs>>
           ELSE IF Model \notin Models
           THEN ErrorHandler(req, c, "Model.findOne is not a function", NoStr)
                /\ UNCHANGED <<db, blobs>>
           ELSE IF fault = "findOne"
           THEN ErrorHandler(req, c, "findOne failed", "findOne")
                /\ UNCHANGED <<db, blobs>>
           ELSE LET i == IndexOfId(db[Model], id)
                IN  IF i = 0
                    THEN Reply(req, c, 404, "Not found", <<>>) /\ UNCHANGED <<db, blobs>>
                    ELSE IF type = "files" /\ s3 /\ db[Model][i].filename = NoStr
                    THEN \* the S3 client rejects parameters without a Key
                         ErrorHandler(req, c, "Missing required key 'Key' in params",
                                      NoStr)
                         /\ UNCHANGED <<db, blobs>>
                    ELSE IF type = "files" /\ s3 /\ fault = "deleteObject"
                    THEN \* await s3.deleteObject(...).promise() rejects
                         ErrorHandler(req, c, "deleteObject failed", "deleteObject")
                         /\ db' = [db EXCEPT ![Model] = DeleteOneAfterObject(@, i)]
                         /\ UNCHANGED blobs
                    ELSE /\ blobs' = IF type = "files" /\ s3
                                     THEN blobs \ {db[Model][i].filename}
                                     ELSE blobs
                         /\ IF fault = "deleteOne"
                            THEN ErrorHandler(req, c, "deleteOne failed", "deleteOne")
                                 /\ UNCHANGED db
                            ELSE /\ db' = [db EXCEPT ![Model] = RemoveAt(@, i)]
                                 /\ Reply(req, c, 204, NoStr, <<>>)

\* app.delete(['/api/:type/:id', '/api/codes/:subtype/:id'])
GenericDelete(form, token, id, fault) == HandleDelete(form, token, id, fault, form)

----------------------------------------------------------------------------
(* The file routes. *)

\* The upload handler without its check of req.file.
uploadErrorNoFileCheck(file) ==
    IF ~s3 THEN "AWS S3 not configured. Check environment variables." ELSE NoStr

\* The error the upload handler throws before it creates anything, NoStr if
\* none; file is NoStr when the request has no file part (req.file undefined).
uploadError(file) ==
    IF ~s3 THEN "AWS S3 not configured. Check environment variables."
    ELSE IF file = NoStr THEN "No file uploaded."
    ELSE NoStr

\* limits: { fileSize: 50 * 1024 * 1024 }
fileSize == 50 * 1024 * 1024

\* The sizes in bytes of the files a client uploads.
Sizes == {fileSize, fileSize + 1}

\* The error uploadMiddleware calls back with, NoStr if none.  The multer of
\* the S3 configuration limits the file size; the fallback multer({ dest })
\* has no limits.
uploadMiddlewareError(file, size, fault) ==
    IF file = NoStr \/ ~s3 THEN NoStr
    ELSE IF size > fileSize THEN "File too large"
    ELSE IF fault = "putObject" THEN "putObject failed"
    ELSE NoStr

\* app.post('/api/files/upload'): the upload middleware, then the handler.
\* file is the originalname of the file part (NoStr: the request has none),
\* size its bytes, tk the instant of the Date.now() in the object key, t that
\* of new Date().
Upload(file, size, gen, tk, t, fault) ==
    LET c == connectToDatabase(fault # "connect")
        req == [Req("upload", "flat", "files", NoStr, EmptyBody, file, t)
                    EXCEPT !.size = size]
        key == S3Key(tk, file)
        mwError == uploadMiddlewareError(file, size, fault)
        stored == IF s3 /\ file # NoStr THEN blobs \cup {key} ELSE blobs
        fileEntry == Doc(gen, NoStr, NoStr, key, t)
    IN  /\ Idle
        /\ "files" \in scope
        /\ \E i \in 1..Len(MatchingPostRoutes(UploadSegments)) :
              MatchingPostRoutes(UploadSegments)[i] = "Upload"
        /\ tk <= t
        /\ UNCHANGED <<calls, DB_URI, s3, scope>>
        /\ (file = NoStr) = (size = 0)
        /\ IF mwError # NoStr
           THEN \* uploadMiddleware calls back with the error: next(err); multer
                \* removes what it stored of the file
                /\ UNCHANGED <<cachedDb, readyState, db, blobs>>
                /\ last' = [req |-> req,
                            res |-> Res(500, mwError, <<>>,
                                        IF size > fileSize THEN NoStr ELSE "putObject")]
           ELSE /\ blobs' = stored
                /\ IF ~c.ok
                   THEN ErrorHandler(req, c, c.error, "connect") /\ UNCHANGED db
                   ELSE IF uploadError(file) # NoStr
                   THEN ErrorHandler(req, c, uploadError(file), NoStr) /\ UNCHANGED db
                   ELSE IF fault = "create"
                   THEN ErrorHandler(req, c, "create failed", "create") /\ UNCHANGED db
                   ELSE IF HasId(db["File"], gen)
                   THEN ErrorHandler(req, c, "E11000 duplicate key", NoStr)
                        /\ UNCHANGED db
                   ELSE /\ db' = [db EXCEPT !["File"] = Append(@, fileEntry)]
                        /\ Reply(req, c, 201, NoStr, <<fileEntry>>)

\* app.get('/api/files/download/:id')
Download(id, fault) ==
    LET c == connectToDatabase(fault # "connect")
        req == Req("download", "flat", "files", id, EmptyBody, NoStr, 0)
        i == IndexOfId(db["File"], id)
    IN  /\ Idle
        /\ "files" \in scope
        /\ UNCHANGED <<calls, DB_URI, s3, db, blobs, scope>>
        /\ IF ~c.ok THEN ErrorHandler(req, c, c.error, "connect")
           ELSE IF ~s3 THEN ErrorHandler(req, c, "AWS S3 not configured", NoStr)
           ELSE IF fault = "findOne"
           THEN ErrorHandler(req, c, "findOne failed", "findOne")
           ELSE IF i = 0 THEN Reply(req, c, 404, "File not found", <<>>)
           ELSE IF fault = "getSignedUrl" /\ db["File"][i].filename = NoStr
           THEN \* signing may reject parameters that carry no Key
                ErrorHandler(req, c, "getSignedUrl failed", "getSignedUrl")
           ELSE \* res.redirect(url)
                Reply(req, c, 302, NoStr, <<db["File"][i]>>)

----------------------------------------------------------------------------
(* The activity log routes (the server of src/models.js).  They are        *)
(* registered before the generic routes.                                   *)

\* const { ..., Activity } = require('./models'): a name that module.exports
\* does not have is undefined.
Activity == IF "Activity" \in Models THEN "Activity" ELSE Undefined

\* .limit(20)
ActivityLimit == 20

\* .sort({ date: -1 }).limit(20) applied to a collection.
FindRecent(coll) ==
    {SubSeq(s, 1, IF Len(s) < ActivityLimit THEN Len(s) ELSE ActivityLimit) :
        s \in FindSorted(coll)}

\* app.get('/api/activity')
ActivityGet(fault) ==
    LET c == connectToDatabase(fault # "connect")
        req == Req("activityList", "flat", "activity", NoStr, EmptyBody, NoStr, 0)
    IN  /\ Idle
        /\ "activity" \in scope
        /\ UNCHANGED <<calls, DB_URI, s3, db, blobs, scope>>
        /\ IF ~c.ok THEN ErrorHandler(req, c, c.error, "connect")
           ELSE IF Activity = Undefined
           THEN ErrorHandler(req, c,
                    "Activity Model is not defined. Check models.js exports.", NoStr)
           ELSE IF fault = "find"
           THEN ErrorHandler(req, c, "find failed", "find")
           ELSE \E activities \in FindRecent(db[Activity]) :
                    Reply(req, c, 200, NoStr, activities)

\* app.post('/api/activity'): the action of the body is kept in title, its
\* itemName in name.
ActivityPost(body, gen, t, fault) ==
    LET c == connectToDatabase(fault # "connect")
        req == Req("activityCreate", "flat", "activity", NoStr, body, NoStr, t)
        newActivity == Doc(gen, body.title, body.name, NoStr, t)
    IN  /\ Idle
        /\ "activity" \in scope
        /\ UNCHANGED <<calls, DB_URI, s3, blobs, scope>>
        /\ IF ~c.ok THEN ErrorHandler(req, c, c.error, "connect") /\ UNCHANGED db
           ELSE IF Activity = Undefined
           THEN ErrorHandler(req, c,
                    "Activity Model is not defined. Check models.js exports.", NoStr)
                /\ UNCHANGED db
           ELSE IF fault = "create"
           THEN ErrorHandler(req, c, "create failed", "create") /\ UNCHANGED db
           ELSE /\ db' = [db EXCEPT ![Activity] = Append(@, newActivity)]
                /\ Reply(req, c, 201, NoStr, <<newActivity>>)

\* app.delete('/api/activity')
ActivityClear(fault) ==
    LET c == connectToDatabase(fault # "connect")
        req == Req("activityClear", "flat", "activity", NoStr, EmptyBody, NoStr, 0)
    IN  /\ Idle
        /\ "activity" \in scope
        /\ UNCHANGED <<calls, DB_URI, s3, blobs, scope>>
        /\ IF ~c.ok THEN ErrorHandler(req, c, c.error, "connect") /\ UNCHANGED db
           ELSE IF Activity = Undefined
           THEN ErrorHandler(req, c, "Activity Model is not defined.", NoStr)
                /\ UNCHANGED db
           ELSE IF fault = "deleteMany"
           THEN ErrorHandler(req, c, "deleteMany failed", "deleteMany")
                /\ UNCHANGED db
           ELSE /\ db' = [db EXCEPT ![Activity] = <<>>]
                /\ Reply(req, c, 204, NoStr, <<>>)

----------------------------------------------------------------------------
(* The environment. *)

\* The connection to the database drops.
ConnectionLost ==
    /\ Idle
    /\ readyState = 1
    /\ readyState' = 0
    /\ UNCHANGED <<calls, DB_URI, s3, cachedDb, db, blobs, scope, last>>

\* The client takes the response; the server awaits the next request.
TakeResponse ==
    /\ ~Idle
    /\ last' = [req |-> NoReq, res |-> Res(0, NoStr, <<>>, NoStr)]
    /\ UNCHANGED <<calls, DB_URI, s3, cachedDb, readyState, db, blobs, scope>>

----------------------------------------------------------------------------

\* The client of a run addresses one type token, or the activity log.
Scopes == {{t} : t \in Tokens \cup {"activity"}}

Init ==
    /\ DB_URI \in BOOLEAN
    /\ scope \in Scopes
    /\ s3 \in (IF "files" \in scope THEN BOOLEAN ELSE {TRUE})
    /\ cachedDb = FALSE
    /\ readyState = 0
    /\ db = [M \in Models |-> <<>>]
    /\ blobs = {}
    /\ last = [req |-> NoReq, res |-> Res(0, NoStr, <<>>, NoStr)]
    /\ calls = [c \in Callers |-> "idle"]

Next ==
    \/ \E token \in scope : \E form \in FormsFor(token) :
          \E fault \in {"none", "connect", "find"} : GenericGet(form, token, fault)
    \/ \E token \in scope : \E form \in FormsFor(token) :
          \E body \in BodiesFor(getModel(TypeOf(form, token))) :
              \E gen \in Ids, t \in Dates, fault \in {"none", "connect", "create"} :
                  GenericPost(form, token, body, gen, t, fault)
    \/ \E token \in scope : \E form \in FormsFor(token) :
          \E body \in BodiesFor(getModel(TypeOf(form, token))) :
              \E id \in Ids, fault \in {"none", "connect", "update"} :
                  GenericPut(form, token, id, body, fault)
    \/ \E token \in scope : \E form \in FormsFor(token) :
          \E id \in Ids,
             fault \in {"none", "connect", "findOne", "deleteObject", "deleteOne"} :
              GenericDelete(form, token, id, fault)
    \/ \E file \in {NoStr} \cup OriginalNames, size \in {0} \cup Sizes, gen \in Ids,
          tk \in UploadInstants, t \in Dates,
          fault \in {"none", "putObject", "connect", "create"} :
          Upload(file, size, gen, tk, t, fault)
    \/ \E id \in Ids, fault \in {"none", "connect", "findOne", "getSignedUrl"} :
          Download(id, fault)
    \/ \E fault \in {"none", "connect", "find"} : ActivityGet(fault)
    \/ \E title \in {NoStr} \cup Titles, gen \in Ids, t \in Dates,
          fault \in {"none", "connect", "create"} :
          ActivityPost([EmptyBody EXCEPT !.title = title], gen, t, fault)
    \/ \E fault \in {"none", "connect", "deleteMany"} : ActivityClear(fault)
    \/ ConnectionLost
    \/ TakeResponse

Spec == Init /\ [][Next]_vars

----------------------------------------------------------------------------
(* A client that addresses two collections in one run: the files and the   *)
(* notes.  Its requests are those of Spec with fewer inputs: the external  *)
(* calls succeed but for the object deletion, the clock stands at the      *)
(* first instant and the bodies carry no date.                             *)

PairScopes == {{"files", "notes"}}

PairBodies(M) ==
    {b \in BodiesFor(M) : b.date = NoDate /\ RequiredFields(M) \subseteq Present(b)}

InitPair ==
    /\ DB_URI = TRUE
    /\ scope \in PairScopes
    /\ s3 \in BOOLEAN
    /\ cachedDb = FALSE
    /\ readyState = 0
    /\ db = [M \in Models |-> <<>>]
    /\ blobs = {}
    /\ last = [req |-> NoReq, res |-> Res(0, NoStr, <<>>, NoStr)]
    /\ calls = [c \in Callers |-> "idle"]

NextPair ==
    \/ \E token \in scope : GenericGet("flat", token, "none")
    \/ \E token \in scope : \E body \in PairBodies(getModel(token)) :
          \E gen \in Ids : GenericPost("flat", token, body, gen, 1, "none")
    \/ \E token \in scope : \E body \in PairBodies(getModel(token)) :
          \E id \in Ids : GenericPut("flat", token, id, body, "none")
    \/ \E token \in scope : \E id \in Ids, fault \in {"none", "deleteObject"} :
          GenericDelete("flat", token, id, fault)
    \/ \E gen \in Ids : Upload("f", fileSize, gen, 1, 1, "none")
    \/ TakeResponse

SpecPair == InitPair /\ [][NextPair]_vars

----------------------------------------------------------------------------
(* Concurrent requests inside connectToDatabase.  A handler runs to its    *)
(* first await without interruption; while it awaits mongoose.connect the  *)
(* handlers of other requests run.  readyState is 2 while mongoose is      *)
(* connecting.                                                             *)

\* The caller runs connectToDatabase up to its return, its throw or its
\* await of mongoose.connect.
EnterConnect(c) ==
    /\ calls[c] = "idle"
    /\ IF Cached
       THEN /\ calls' = [calls EXCEPT ![c] = "returned"]
            /\ UNCHANGED readyState
       ELSE IF ~DB_URI
       THEN /\ calls' = [calls EXCEPT ![c] = "threw"]
            /\ UNCHANGED readyState
       ELSE /\ calls' = [calls EXCEPT ![c] = "connecting"]
            /\ readyState' = IF readyState = 1 THEN 1 ELSE 2
    /\ UNCHANGED <<DB_URI, s3, cachedDb, db, blobs, scope, last>>

\* cachedDb = await mongoose.connect(...) resolves; return cachedDb
ConnectResolves(c) ==
    /\ calls[c] = "connecting"
    /\ cachedDb' = TRUE
    /\ readyState' = 1
    /\ calls' = [calls EXCEPT ![c] = "returned"]
    /\ UNCHANGED <<DB_URI, s3, db, blobs, scope, last>>

\* await mongoose.connect(...) rejects: catch (err) { throw err }
ConnectRejects(c) ==
    /\ calls[c] = "connecting"
    /\ calls' = [calls EXCEPT ![c] = "threw"]
    /\ readyState' = IF readyState = 1 THEN 1
                     ELSE IF \E d \in Callers \ {c} : calls[d] = "connecting" THEN 2
                     ELSE 0
    /\ UNCHANGED <<DB_URI, s3, cachedDb, db, blobs, scope, last>>

\* The request of the caller ends; the caller may make another.
RequestEnds(c) ==
    /\ calls[c] \in {"returned", "threw"}
    /\ calls' = [calls EXCEPT ![c] = "idle"]
    /\ UNCHANGED <<DB_URI, s3, cachedDb, readyState, db, blobs, scope, last>>

InitConnect ==
    /\ DB_URI \in BOOLEAN
    /\ scope = {}
    /\ s3 = TRUE
    /\ cachedDb = FALSE
    /\ readyState = 0
    /\ db = [M \in Models |-> <<>>]
    /\ blobs = {}
    /\ last = [req |-> NoReq, res |-> Res(0, NoStr, <<>>, NoStr)]
    /\ calls = [c \in Callers |-> "idle"]

NextConnect ==
    \/ \E c \in Callers : EnterConnect(c)
    \/ \E c \in Callers : ConnectResolves(c)
    \/ \E c \in Callers : ConnectRejects(c)
    \/ \E c \in Callers : RequestEnds(c)
    \/ ConnectionLost

SpecConnect == InitConnect /\ [][NextConnect]_vars

----------------------------------------------------------------------------
(* The claims. *)

Range(seq) == {seq[i] : i \in 1..Len(seq)}

GenericOps == {"list", "create", "update", "delete"}

\* The value getModel gave the handler of the last request.
LastModel == getModel(TypeOf(last.req.form, last.req.token))

\* C1: a list request on a registered type that is answered 200 returns
\* exactly the documents of the collection (nothing when it is empty),
\* ordered by date descending whatever their insertion order; it is answered
\* otherwise only when the connection or the find failed.
C1_ListReturnsCollectionByDateDescending ==
    (last.req.op = "list" /\ last.req.token \in RegisteredTokens) =>
        LET coll == db[LastModel]
            docs == last.res.docs
        IN  IF last.res.status = 200
            THEN /\ Len(docs) = Len(coll)
                 /\ Range(docs) = Range(coll)
                 /\ \A i, j \in 1..Len(docs) : i < j => docs[i].date >= docs[j].date
                 /\ (coll = <<>> => docs = <<>>)
            ELSE last.res.status = 500 /\ last.res.failed \in {"connect", "find"}

\* C1 witness: a list of two documents that were inserted oldest first.
C1_Witness ==
    /\ last.req.op = "list"
    /\ last.req.token \in RegisteredTokens
    /\ last.res.status = 200
    /\ Len(last.res.docs) = 2
    /\ db[LastModel][1].date < db[LastModel][2].date

\* C2 (as claimed): a generic request with an unregistered type token, all
\* external calls succeeding, is answered 404 with a message naming the token.
C2_UnregisteredTokenAnswers404 ==
    (/\ last.req.op \in GenericOps
     /\ last.req.token \notin RegisteredTokens
     /\ last.res.failed = NoStr) =>
        /\ last.res.status = 404
        /\ last.res.error = "Invalid type: " \o last.req.token

C4_CreatedDateIsServerTime ==
    (/\ last.req.op = "create"
     /\ last.req.token \in RegisteredTokens
     /\ last.res.status = 201) =>
        last.res.docs[1].date = last.req.at

\* C5 (as claimed): a PUT on a registered type to an id that no document of
\* the collection has, all external calls succeeding, is answered 404.
C5_PutToAbsentIdAnswers404 ==
    [][(/\ Idle
        /\ last'.req.op = "update"
        /\ last'.req.token \in RegisteredTokens
        /\ last'.res.failed = NoStr
        /\ ~HasId(db[getModel(TypeOf(last'.req.form, last'.req.token))], last'.req.id))
       => last'.res.status = 404]_vars

\* C6: a PUT answered 200 on an existing document sets the fields the body
\* names, leaves its other fields, the other documents and the other
\* collections unchanged and returns the document; the same PUT applied again
\* leaves the store as it is; a PUT not answered 200 changes nothing.
C6_PutOverwritesOnlyNamedFieldsAndIsIdempotent ==
    [][(/\ Idle
        /\ last'.req.op = "update"
        /\ last'.req.token \in RegisteredTokens) =>
          LET M == getModel(TypeOf(last'.req.form, last'.req.token))
              id == last'.req.id
              body == last'.req.body
              i == IndexOfId(db[M], id)
          IN  IF last'.res.status = 200 /\ HasId(db[M], id)
              THEN /\ Len(db'[M]) = Len(db[M])
                   /\ \A f \in DOMAIN db[M][i] :
                         db'[M][i][f] = IF f \in Present(body) THEN body[f]
                                        ELSE db[M][i][f]
                   /\ \A k \in 1..Len(db[M]) : k # i => db'[M][k] = db[M][k]
                   /\ \A N \in Models \ {M} : db'[N] = db[N]
                   /\ last'.res.docs = <<db'[M][i]>>
                   /\ findOneAndUpdate(db'[M], id, body).error = NoStr
                   /\ findOneAndUpdate(db'[M], id, body).coll = db'[M]
              ELSE db' = db]_vars

\* C6 witness: a PUT naming only the date was answered with the document,
\* whose title is still there.
C6_Witness ==
    /\ last.req.op = "update"
    /\ last.req.token \in RegisteredTokens
    /\ Present(last.req.body) = {"date"}
    /\ last.res.status = 200
    /\ Len(last.res.docs) = 1
    /\ last.res.docs[1].title = "t"
    /\ last.res.docs[1].date = last.req.body.date
    /\ Len(db[LastModel]) = 2

\* C7 (as claimed): the filename of every document of the files collection
\* is the key of an object of the bucket.
C7_FilenameReferencesLiveObject ==
    \A i \in 1..Len(db["File"]) : db["File"][i].filename \in blobs

\* C8 (as claimed): when the delete of a file document finds s3.deleteObject
\* failing, the document is removed all the same and the request answers 204.
C8_DeleteObjectFailureDoesNotBlockDelete ==
    (last.req.op = "delete" /\ last.res.failed = "deleteObject") =>
        /\ last.res.status = 204
        /\ ~HasId(db["File"], last.req.id)

\* C9: an upload without a file part, or while the S3 client does not exist,
\* is answered with an error and leaves every collection as it was.
C9_RejectedUploadCreatesNoRecord ==
    [][(/\ Idle
        /\ last'.req.op = "upload"
        /\ (last'.req.file = NoStr \/ ~s3)) =>
          /\ last'.res.status = 500
          /\ last'.res.error # NoStr
          /\ last'.res.docs = <<>>
          /\ db' = db]_vars

\* C9 witness: an upload without a file part was refused while the files
\* collection held a document.
C9_Witness ==
    /\ last.req.op = "upload"
    /\ last.req.file = NoStr
    /\ last.res.status = 500
    /\ last.res.error = "No file uploaded."
    /\ db["File"] # <<>>

\* C10 (as claimed): a download whose id matches no document of the files
\* collection, all external calls succeeding, is answered 404.
C10_DownloadOfMissingIdAnswers404 ==
    (/\ last.req.op = "download"
     /\ last.res.failed = NoStr
     /\ ~HasId(db["File"], last.req.id)) =>
        last.res.status = 404

\* C10 (amended): a download is answered with a redirect only if a document
\* of the files collection has the id; one whose id matches no document is
\* answered 404 when the S3 client exists and no external call failed, and
\* 500 otherwise.
C10_DownloadRedirectsOnlyToExistingRecord ==
    (last.req.op = "download") =>
        /\ last.res.status = 302 =>
              /\ HasId(db["File"], last.req.id)
              /\ last.res.docs = <<db["File"][IndexOfId(db["File"], last.req.id)]>>
        /\ ~HasId(db["File"], last.req.id) =>
              /\ last.res.status \in {404, 500}
              /\ last.res.status = 404 <=> (s3 /\ last.res.failed = NoStr)

\* C10 witness: a download of an id no document has, from a collection that
\* is not empty, was answered 404.
C10_Witness ==
    /\ last.req.op = "download"
    /\ ~HasId(db["File"], last.req.id)
    /\ db["File"] # <<>>
    /\ last.res.status = 404

\* C11 (as claimed): while the S3 client does not exist, a download and a
\* delete of a file document are answered 500; none reports success.
C11_DegradedModeFailsExplicitly ==
    [][(/\ Idle
        /\ ~s3
        /\ \/ last'.req.op = "download"
           \/ /\ last'.req.op = "delete"
              /\ last'.req.token = "files"
              /\ HasId(db["File"], last'.req.id))
       => /\ last'.res.status = 500
          /\ last'.res.error # NoStr
          /\ db' = db]_vars

\* C12 (as claimed): a list of the activity log during which no external
\* call fails is served by the activity handler with the entries of the log,
\* at most 20 of them, newest first; a post to the log is answered 201.
C12_ActivityListReturnsRecentEntries ==
    (/\ last.req.op \in {"activityList", "activityCreate"}
     /\ last.res.failed = NoStr) =>
        /\ Activity # Undefined
        /\ last.req.op = "activityCreate" => last.res.status = 201
        /\ last.req.op = "activityList" =>
              /\ last.res.status = 200
              /\ last.res.docs \in FindRecent(db[Activity])
              /\ Len(last.res.docs) <= ActivityLimit

\* The request recorded in last' took a failure path from the state before
\* it: an external call failed, the connection string is missing, the type
\* token is not a registered one, the addressed record does not exist, the
\* S3 client a file route needs does not exist, or an upload has no file.
FailurePath ==
    LET r == last'.req
        M == getModel(TypeOf(r.form, r.token))
    IN  \/ last'.res.failed # NoStr
        \/ ~DB_URI
        \/ r.op \in GenericOps /\ r.token \notin RegisteredTokens
        \/ /\ r.op \in {"update", "delete"}
           /\ r.token \in RegisteredTokens
           /\ ~HasId(db[M], r.id)
        \/ r.op = "download" /\ ~HasId(db["File"], r.id)
        \/ r.op \in {"upload", "download"} /\ ~s3
        \/ r.op = "upload" /\ r.file = NoStr

\* C13 (as claimed): every request that takes a failure path is answered
\* with status 404 or 500 and the envelope { error: message }.
C13_EveryFailureYieldsErrorEnvelope ==
    [][(Idle /\ last'.req.op # "none" /\ FailurePath) =>
          /\ last'.res.status \in {404, 500}
          /\ last'.res.error # NoStr
          /\ last'.res.docs = <<>>]_vars

\* C14 (as claimed): an upload of a file of more than 50 MiB, no external
\* call failing, is answered with a 4xx status and creates no document,
\* whether the S3 client exists or not.
C14_OversizeUploadIsClientError ==
    [][(/\ Idle
        /\ last'.req.op = "upload"
        /\ last'.req.size > fileSize
        /\ last'.res.failed = NoStr) =>
          /\ last'.res.status \in 400..499
          /\ db' = db]_vars

\* C15 (as claimed): no request changes the id of a stored document: a step
\* that neither adds nor removes a document of a collection leaves the id of
\* each of its documents as it was.
C15_IdIsImmutable ==
    [][\A M \in Models :
          Len(db'[M]) = Len(db[M]) =>
              \A i \in 1..Len(db[M]) : db'[M][i].id = db[M][i].id]_vars

\* C16 (as claimed): no two stored documents have the same id, be they in
\* one collection or in two.
C16_IdsAreGloballyUnique ==
    \A M, N \in Models :
        \A i \in 1..Len(db[M]), j \in 1..Len(db[N]) :
            (M # N \/ i # j) => db[M][i].id # db[N][j].id

\* The collection the interface documents for each registered type token.
CollectionOf(token) ==
    CASE token = "files" -> "File"
      [] token = "notes" -> "Note"
      [] token = "projects" -> "Project"
      [] token = "contacts" -> "Contact"
      [] token = "python" -> "PythonCode"
      [] token = "javascript" -> "JavascriptCode"
      [] token = "html" -> "HtmlCode"
      [] token = "css" -> "CssCode"
      [] token = "other" -> "OtherCode"

\* C20: a generic request on a registered type leaves every collection but
\* the one of its type as it was: a list changes none, and a create, update
\* or delete changes at most its own; a generic request on a type other
\* than files leaves the bucket as it was.
C20_RequestTouchesOnlyItsCollection ==
    [][(/\ Idle
        /\ last'.req.op \in GenericOps
        /\ last'.req.token \in RegisteredTokens) =>
          /\ \A N \in Models \ {CollectionOf(last'.req.token)} : db'[N] = db[N]
          /\ last'.req.op = "list" => db' = db
          /\ last'.req.token # "files" => blobs' = blobs]_vars

\* C20 witness: a note was deleted while the files collection and the
\* bucket held an upload.
C20_Witness ==
    /\ last.req.op = "delete"
    /\ last.req.token = "notes"
    /\ last.res.status = 204
    /\ db["File"] # <<>>
    /\ blobs # {}

\* C17: the generic create route does not match the upload path, so only
\* the upload handler processes a POST to it; the upload handler answers
\* once and stores at most one document, in the files collection, the one it
\* returns with 201; no generic create is a request to the upload path.
C17_UploadProcessedByUploadHandlerAlone ==
    [][(Idle /\ last'.req.op \in {"upload", "create"}) =>
          /\ MatchingPostRoutes(UploadSegments) = <<"Upload">>
          /\ last'.req.op = "create" =>
                Segments(last'.req.form, last'.req.token) # UploadSegments
          /\ last'.req.op = "upload" =>
                /\ last'.res.status \in {201, 500}
                /\ \A N \in Models \ {"File"} : db'[N] = db[N]
                /\ IF last'.res.status = 201
                   THEN /\ Len(last'.res.docs) = 1
                        /\ db'["File"] = Append(db["File"], last'.res.docs[1])
                   ELSE db' = db]_vars

\* C17 witness: a second upload was answered 201.
C17_Witness ==
    /\ last.req.op = "upload"
    /\ last.res.status = 201
    /\ Len(db["File"]) = 2

\* The other path form of a generic route.
OtherForm(form) == IF form = "flat" THEN "nested" ELSE "flat"

\* C18: for each code subtype the flat and the nested form resolve to the
\* same collection, and every generic step made through one form is, from
\* the same state and with the same body and id, also a step of the handler
\* run on the other form: the same response and the same resulting state.
C18_FlatAndNestedFormsAgree ==
    [][(/\ Idle
        /\ last'.req.op \in GenericOps
        /\ last'.req.token \in CodeSubtypes) =>
          LET r == last'.req
              other == OtherForm(r.form)
          IN  /\ getModel(TypeOf(r.form, r.token)) = getModel(TypeOf(other, r.token))
              /\ getModel(TypeOf(other, r.token)) = CollectionOf(r.token)
              /\ r.op = "list" =>
                    \E fault \in {"none", "connect", "find"} :
                        HandleGet(other, r.token, fault, r.form)
              /\ r.op = "create" =>
                    \E gen \in Ids, fault \in {"none", "connect", "create"} :
                        HandlePost(other, r.token, r.body, gen, r.at, fault, r.form)
              /\ r.op = "update" =>
                    \E fault \in {"none", "connect", "update"} :
                        HandlePut(other, r.token, r.id, r.body, fault, r.form)
              /\ r.op = "delete" =>
                    \E fault \in {"none", "connect", "findOne", "deleteObject",
                                  "deleteOne"} :
                        HandleDelete(other, r.token, r.id, fault, r.form)]_vars

\* C18 witness: an update through the nested form set the date of a
\* document of a code collection that holds two.
C18_Witness ==
    /\ last.req.op = "update"
    /\ last.req.form = "nested"
    /\ last.req.token \in CodeSubtypes
    /\ last.res.status = 200
    /\ Len(last.res.docs) = 1
    /\ last.req.body.date # NoDate
    /\ Len(db[LastModel]) = 2

\* C19: a connect is started only by a request, and only from a state in
\* which no cached connection exists or the connection is not ready; a
\* request that finds the cached connection ready returns it and leaves the
\* cache as it is; the cache is filled only by a connect that a request
\* started.  Requests that arrive while a connect is in flight find no cached
\* connection and start connects of their own.
C19_ConnectOnlyWhenNoReadyCachedConnection ==
    [][/\ \A c \in Callers :
             (calls[c] # "connecting" /\ calls'[c] = "connecting") =>
                 /\ calls[c] = "idle"
                 /\ ~(cachedDb /\ readyState = 1)
                 /\ DB_URI
       /\ \A c \in Callers :
             (calls[c] = "idle" /\ calls'[c] # "idle" /\ cachedDb /\ readyState = 1) =>
                 /\ calls'[c] = "returned"
                 /\ UNCHANGED <<cachedDb, readyState>>
       /\ (~cachedDb /\ cachedDb') =>
             \E c \in Callers : calls[c] = "connecting" /\ calls'[c] = "returned"]_vars

\* C19 witness: the connection is cached and ready for one request while the
\* connect of another request is still in flight.
C19_Witness ==
    /\ cachedDb
    /\ readyState = 1
    /\ \E c, d \in Callers :
          /\ c # d
          /\ calls[c] = "returned"
          /\ calls[d] = "connecting"

\* C21: a request answered 404 or 500 leaves every collection of the
\* document store as it was before the request, at whatever point it failed.
C21_ErrorResponseLeavesCollectionsUnchanged ==
    [][(/\ Idle
        /\ last'.req.op # "none"
        /\ last'.res.status \in {404, 500}) => db' = db]_vars

\* C21 witness: the delete of a file document was answered 500 because
\* Model.deleteOne failed after the object was deleted; the document is
\* still in the collection.
C21_Witness ==
    /\ last.req.op = "delete"
    /\ last.req.token = "files"
    /\ last.res.status = 500
    /\ last.res.failed = "deleteOne"
    /\ HasId(db["File"], last.req.id)
    /\ db["File"][IndexOfId(db["File"], last.req.id)].filename \notin blobs

====
